---- MODULE Spec2Model ----
(***************************************************************************)
(* copyfighter: a static analyzer that reports functions whose receiver,   *)
(* parameters or results are "wide" named types passed by value.           *)
(*                                                                         *)
(* The module models src/main.go: main, check, checkPkg, findCopySites,   *)
(* isWideStructTyped, printSites, sortedCopySites and sentence, together   *)
(* with the library calls whose results decide what the program prints     *)
(* (types.StdSizes.Sizeof, types.Object.Id, sort.Sort).                    *)
(*                                                                         *)
(* Go strings are modelled as sequences of string pieces, concatenation    *)
(* as \o, so that formatting is computed and not assumed.                  *)
(***************************************************************************)
EXTENDS Integers, Sequences, FiniteSets, TLC

VARIABLES
    pc,           \* control location of the run
    cfg,          \* the three flags: maxStructWidth, wordSize, maxAlign
    pkgs,         \* the parsed packages check() iterates over
    k,            \* number of packages checkPkg has completed
    wideStructs,  \* checkPkg's wideStructs map (set of Id keys mapped to true)
    sites,        \* []copySite accumulated by check / sorted by printSites
    out,          \* lines written to os.Stdout
    err,          \* the error returned by check ("nil" when none)
    exit,         \* process exit status (-1 while running)
    arg,          \* argument of the function under study (function-level runs)
    ret           \* its returned value (function-level runs)

vars == <<pc, cfg, pkgs, k, wideStructs, sites, out, err, exit, arg, ret>>

Nil == "nil"

\* ------------------------------------------------------------------------
\* Small helpers
\* ------------------------------------------------------------------------

SeqsUpTo(S, n) == UNION {[1..m -> S] : m \in 0..n}

Range(s) == {s[i] : i \in 1..Len(s)}

\* Go's remainder operator: the result has the sign of the dividend.
GoRem(x, y) ==
    LET ay == IF y < 0 THEN -y ELSE y
    IN  IF x >= 0 THEN x % ay ELSE -((-x) % ay)

\* ------------------------------------------------------------------------
\* go/types values used by the program
\* ------------------------------------------------------------------------

UpperCase == {"A","B","C","D","E","F","G","H","I","J","K","L","M",
              "N","O","P","Q","R","S","T","U","V","W","X","Y","Z"}

\* ast.IsExported: the name starts with an upper-case letter.
isExported(name) == name # <<>> /\ name[1] \in UpperCase

Basic(name)     == [k |-> "Basic", name |-> name]
Pointer(elem)   == [k |-> "Pointer", elem |-> elem]
Slice           == [k |-> "Slice"]
Struct(fields)  == [k |-> "Struct", fields |-> fields]
Named(obj)      == [k |-> "Named", obj |-> obj]

\* A *types.TypeName: its name, the path of its package ("" for the package
\* under analysis, which checkPkg checks with conf.Check("", ...)), the scope
\* that declares it, and the underlying type of the type it names.
TypeName(name, path, scope, under) ==
    [name |-> name, path |-> path, scope |-> scope, under |-> under]

\* types.Object.Id: an exported name alone, otherwise the name qualified by
\* the package path ("_" when the path is empty).
Id(obj) ==
    IF isExported(obj.name) THEN obj.name
    ELSE (IF obj.path # <<>> THEN obj.path ELSE <<"_">>) \o <<".">> \o obj.name

Underlying(T) == IF T.k = "Named" THEN T.obj.under ELSE T

\* ------------------------------------------------------------------------
\* types.StdSizes{WordSize, MaxAlign}, as built and used by checkPkg
\* ------------------------------------------------------------------------

\* basicSizes: the explicitly sized basic types; int and uintptr are not in
\* the table and fall through to the word size.
basicSizes(name) ==
    CASE name = "int8"  -> 1
      [] name = "int16" -> 2
      [] name = "int32" -> 4
      [] name = "int64" -> 8
      [] OTHER -> 0

\* align returns the smallest y >= x such that y % a == 0.
\* a = 0 is a division by zero (run-time panic); see Panics.
align(x, a) == LET y == x + a - 1 IN y - GoRem(y, a)

RECURSIVE Sizeof(_, _)
RECURSIVE Alignof(_, _)
RECURSIVE Offsetsof(_, _, _, _)

\* StdSizes.Alignof: structs take the largest field alignment (at least 1);
\* everything else is aligned to its size, at least 1 and at most MaxAlign.
Alignof(T, s) ==
    LET t == Underlying(T) IN
    IF t.k = "Struct"
    THEN LET as == {Alignof(t.fields[i], s) : i \in 1..Len(t.fields)} \cup {1}
         IN  CHOOSE m \in as : \A a \in as : a <= m
    ELSE LET a == Sizeof(T, s)
         IN  IF a < 1 THEN 1
             ELSE IF a > s.maxAlign THEN s.maxAlign
             ELSE a

\* StdSizes.Offsetsof: the running offset o is aligned for field i, recorded,
\* and advanced by the field's size.
Offsetsof(fields, s, i, o) ==
    IF i > Len(fields) THEN <<>>
    ELSE LET at == align(o, Alignof(fields[i], s))
         IN  <<at>> \o Offsetsof(fields, s, i + 1, at + Sizeof(fields[i], s))

\* StdSizes.Sizeof: "the size of a struct is the offset of the last field
\* plus that field's size"; slices are three words, strings two, and all
\* other types (pointers, int, ...) one word.
Sizeof(T, s) ==
    LET t == Underlying(T) IN
    CASE t.k = "Basic" ->
            IF basicSizes(t.name) > 0 THEN basicSizes(t.name)
            ELSE IF t.name = "string" THEN s.wordSize * 2
            ELSE s.wordSize
      [] t.k = "Slice" -> s.wordSize * 3
      [] t.k = "Struct" ->
            LET n == Len(t.fields) IN
            IF n = 0 THEN 0
            ELSE LET offsets == Offsetsof(t.fields, s, 1, 0)
                 IN  offsets[n] + Sizeof(t.fields[n], s)
      [] OTHER -> s.wordSize

\* Sizeof divides by zero (panics) when a field has to be aligned to 0,
\* which happens exactly when MaxAlign is 0 and a field is larger than 0.
RECURSIVE Panics(_, _)
Panics(T, s) ==
    LET t == Underlying(T) IN
    /\ t.k = "Struct"
    /\ \E i \in 1..Len(t.fields) :
          \/ Panics(t.fields[i], s)
          \/ (~Panics(t.fields[i], s) /\ Alignof(t.fields[i], s) = 0)

\* ------------------------------------------------------------------------
\* Functions, signatures and copy sites
\* ------------------------------------------------------------------------

NoRecv == [k |-> "none"]

\* A types.Var of a signature: its name ("" when unnamed) and its type.
Var(name, type) == [name |-> name, type |-> type]

\* token.Position of a declaration as fset.Position reports it (//line
\* directives applied, so two declarations may share one position).
Position(file, line, column) ==
    [Filename |-> file, Line |-> line, Column |-> column]

\* A *types.Func: name, declaration position and signature.
Func(name, pos, recv, params, results) ==
    [name |-> name, pos |-> pos, recv |-> recv,
     params |-> params, results |-> results]

copySite(fun, shouldBe) == [fun |-> fun, shouldBe |-> shouldBe]

Digits == <<"0", "1", "2", "3", "4", "5", "6", "7", "8", "9">>

\* fmt's %d of a non-negative int.
RECURSIVE Itoa(_)
Itoa(i) ==
    IF i < 10 THEN <<Digits[i + 1]>>
    ELSE Itoa(i \div 10) \o <<Digits[(i % 10) + 1]>>

\* types.TypeString with a nil qualifier: a named type prints as its package
\* path, a dot (when the path is not empty) and its name.
RECURSIVE TypeString(_)
TypeString(T) ==
    CASE T.k = "Named" ->
            (IF T.obj.path # <<>> THEN T.obj.path \o <<".">> ELSE <<>>)
                \o T.obj.name
      [] T.k = "Pointer" -> <<"*">> \o TypeString(T.elem)
      [] T.k = "Basic" -> <<T.name>>
      [] T.k = "Slice" -> <<"[]">>
      [] OTHER -> <<"struct{...}">>

\* A variant of isWideStructTyped that looks through pointers.
isWideStructTypedDeref(t, wide) ==
    \/ (t.k = "Named" /\ Id(t.obj) \in wide)
    \/ (t.k = "Pointer" /\ t.elem.k = "Named" /\ Id(t.elem.obj) \in wide)

\* isWideStructTyped: the type is a *types.Named whose object's Id is a key
\* of wideStructs.
isWideStructTyped(t, wide) ==
    t.k = "Named" /\ Id(t.obj) \in wide

\* The descriptions findCopySites appends to shouldBe.
receiverDesc == <<"receiver">>

parameterDesc(v, i) ==
    LET parameter == IF v.name # <<>>
                     THEN <<"parameter '">> \o v.name \o <<"'">>
                     ELSE <<"parameter">>
    IN  parameter \o <<" at index ">> \o Itoa(i)

resultDesc(v, i) ==
    <<"return value '">> \o TypeString(v.type) \o <<"' at index ">> \o Itoa(i)

\* The loop over s.Params(): i is the Go index (from 0).
RECURSIVE paramsShouldBe(_, _, _)
paramsShouldBe(params, wide, i) ==
    IF i >= Len(params) THEN <<>>
    ELSE (IF isWideStructTyped(params[i + 1].type, wide)
          THEN <<parameterDesc(params[i + 1], i)>> ELSE <<>>)
         \o paramsShouldBe(params, wide, i + 1)

\* The loop over s.Results().
RECURSIVE resultsShouldBe(_, _, _)
resultsShouldBe(results, wide, i) ==
    IF i >= Len(results) THEN <<>>
    ELSE (IF isWideStructTyped(results[i + 1].type, wide)
          THEN <<resultDesc(results[i + 1], i)>> ELSE <<>>)
         \o resultsShouldBe(results, wide, i + 1)

\* A variant of shouldBeOf that lists the parameters before the receiver.
shouldBeOfParamsFirst(f, wide) ==
    paramsShouldBe(f.params, wide, 0)
    \o (IF f.recv # NoRecv /\ isWideStructTyped(f.recv, wide)
        THEN <<receiverDesc>> ELSE <<>>)
    \o resultsShouldBe(f.results, wide, 0)

\* The body of findCopySites' loop for one function: receiver, then
\* parameters, then results.
shouldBeOf(f, wide) ==
    (IF f.recv # NoRecv /\ isWideStructTyped(f.recv, wide)
     THEN <<receiverDesc>> ELSE <<>>)
    \o paramsShouldBe(f.params, wide, 0)
    \o resultsShouldBe(f.results, wide, 0)

\* findCopySites: one copySite per function with a non-empty shouldBe.
RECURSIVE findCopySites(_, _)
findCopySites(funcs, wide) ==
    IF funcs = <<>> THEN <<>>
    ELSE LET f == Head(funcs)
             shouldBe == shouldBeOf(f, wide)
         IN  (IF Len(shouldBe) > 0 THEN <<copySite(f, shouldBe)>> ELSE <<>>)
             \o findCopySites(Tail(funcs), wide)

\* ------------------------------------------------------------------------
\* sentence, sortedCopySites and printSites
\* ------------------------------------------------------------------------

\* strings.Join
RECURSIVE Join(_, _)
Join(elems, sep) ==
    IF Len(elems) = 0 THEN <<>>
    ELSE IF Len(elems) = 1 THEN elems[1]
    ELSE elems[1] \o sep \o Join(Tail(elems), sep)

\* sentence: "", the single part, or all but the last part joined by ", "
\* followed by ", and " and the last part.
sentence(parts) ==
    IF Len(parts) = 0 THEN <<>>
    ELSE IF Len(parts) = 1 THEN parts[1]
    ELSE Join(SubSeq(parts, 1, Len(parts) - 1), <<", ">>)
            \o <<", and ">> \o parts[Len(parts)]

\* Byte values of the characters file names are written with.
CharCode(c) ==
    CASE c = "." -> 46
      [] c = "a" -> 97
      [] c = "b" -> 98
      [] c = "g" -> 103
      [] c = "o" -> 111

\* Go's < on strings: bytewise lexical order, a proper prefix first.
RECURSIVE StrLess(_, _)
StrLess(x, y) ==
    IF y = <<>> THEN FALSE
    ELSE IF x = <<>> THEN TRUE
    ELSE IF CharCode(Head(x)) # CharCode(Head(y))
         THEN CharCode(Head(x)) < CharCode(Head(y))
    ELSE StrLess(Tail(x), Tail(y))

\* A variant of Less that compares the column before the line.
LessColumnFirst(s, i, j) ==
    LET left == s[i].fun.pos
        right == s[j].fun.pos
    IN  IF left.Filename # right.Filename
        THEN StrLess(left.Filename, right.Filename)
        ELSE IF left.Column # right.Column THEN left.Column < right.Column
        ELSE left.Line < right.Line

\* sortedCopySites.Less: file name, then line, then column.
Less(s, i, j) ==
    LET left == s[i].fun.pos
        right == s[j].fun.pos
    IN  IF left.Filename # right.Filename
        THEN StrLess(left.Filename, right.Filename)
        ELSE IF left.Line # right.Line THEN left.Line < right.Line
        ELSE left.Column < right.Column

\* sortedCopySites.Swap
Swap(s, i, j) == [s EXCEPT ![i] = s[j], ![j] = s[i]]

\* sort.Sort on at most 12 elements, through Len, Less and Swap.  The
\* library documents that the sort is not stable, and what it does depends
\* on the Go release the program is built with: an insertion sort, which
\* Go 1.7 to 1.18 precede by one Shell pass with gap 6.
RECURSIVE sortInsertInner(_, _)
sortInsertInner(s, j) ==
    IF j > 1 /\ Less(s, j, j - 1)
    THEN sortInsertInner(Swap(s, j, j - 1), j - 1)
    ELSE s

RECURSIVE sortInsertionSort(_, _)
sortInsertionSort(s, i) ==
    IF i > Len(s) THEN s
    ELSE sortInsertionSort(sortInsertInner(s, i), i + 1)

RECURSIVE sortShellPass(_, _)
sortShellPass(s, i) ==
    IF i > Len(s) THEN s
    ELSE sortShellPass(IF Less(s, i, i - 6) THEN Swap(s, i, i - 6) ELSE s, i + 1)

\* The results sort.Sort(sortedCopySites{sites, fset}) can leave in sites.
sortSort(s) ==
    { sortInsertionSort(s, 2), sortInsertionSort(sortShellPass(s, 7), 2) }

\* One diagnostic, the arguments of printSites' Fprintf
\* "%s:%d:%d: %s %s (%s)\n" with the numbers and the sentence formatted.
\* The file printed is fset.File(pos).Name(); the positions modelled are
\* those whose //line directives, if any, keep the name of the file.
diagnostic(site) ==
    [ file     |-> site.fun.pos.Filename,
      line     |-> Itoa(site.fun.pos.Line),
      column   |-> Itoa(site.fun.pos.Column),
      sb       |-> sentence(site.shouldBe),
      msg      |-> <<"should be made into">>
                     \o (IF Len(site.shouldBe) > 1
                         THEN <<" pointers">> ELSE <<" a pointer">>),
      f        |-> site.fun ]

\* The lines printSites writes for sites already sorted.
printSites(sorted) == [i \in 1..Len(sorted) |-> diagnostic(sorted[i])]

\* ------------------------------------------------------------------------
\* checkPkg
\* ------------------------------------------------------------------------

\* An *ast.Package as checkPkg sees it after conf.Check: whether the type
\* checker reports an error, and the TypeName and Func objects of info.Defs.
Package(typeErr, types, funcs) ==
    [typeErr |-> typeErr, types |-> types, funcs |-> funcs]

\* checkPkg's loop over info.Defs: the Id of every TypeName whose size is
\* greater than maxWidth is mapped to true.
wideStructsOf(types, c) ==
    {Id(tn) : tn \in {t \in types :
                        Sizeof(Named(t), [wordSize |-> c.wordSize,
                                          maxAlign |-> c.maxAlign])
                            > c.maxStructWidth}}

\* The orders in which the loop over the map info.Defs can append the
\* package's functions to funcs.
funcOrders(funcs) ==
    {o \in [1..Cardinality(funcs) -> funcs] :
        \A i, j \in 1..Cardinality(funcs) : i # j => o[i] # o[j]}

\* sizes.Sizeof panics on some TypeName of the package.
checkPkgPanics(pkg, c) ==
    \E tn \in pkg.types :
       Panics(Named(tn), [wordSize |-> c.wordSize, maxAlign |-> c.maxAlign])

\* ------------------------------------------------------------------------
\* Function-level run: StdSizes.Sizeof on one struct type
\* ------------------------------------------------------------------------

MaxFields == 3

\* Field types a struct under study is built from: explicitly sized basic
\* types, the word-sized int and pointer, and a nested struct.
FieldTypes ==
    { Basic("int8"), Basic("int32"), Basic("int64"), Basic("int"),
      Pointer(Basic("int8")),
      Struct(<<Basic("int64"), Basic("int8")>>) }

SizeConfigs ==
    [maxStructWidth : {16}, wordSize : {4, 8}, maxAlign : {4, 8}]

\* Values of the variables a function-level run does not use.
Unused(vs) ==
    /\ ("cfg" \in vs => cfg = [maxStructWidth |-> 16, wordSize |-> 8, maxAlign |-> 8])
    /\ ("pkgs" \in vs => pkgs = <<>>)
    /\ ("k" \in vs => k = 0)
    /\ ("wideStructs" \in vs => wideStructs = {})
    /\ ("sites" \in vs => sites = <<>>)
    /\ ("out" \in vs => out = <<>>)
    /\ ("err" \in vs => err = Nil)
    /\ ("exit" \in vs => exit = -1)
    /\ ("arg" \in vs => arg = <<>>)
    /\ ("ret" \in vs => ret = <<>>)

InitSizes ==
    /\ pc = "Sizeof"
    /\ cfg \in SizeConfigs
    /\ arg \in {Struct(fs) : fs \in SeqsUpTo(FieldTypes, MaxFields)}
    /\ Unused({"pkgs", "k", "wideStructs", "sites", "out", "err", "exit", "ret"})

\* sizes.Sizeof(tn.Type()) as called by checkPkg.
CallSizeof ==
    /\ pc = "Sizeof"
    /\ ret' = Sizeof(arg, cfg)
    /\ pc' = "returned"
    /\ UNCHANGED <<cfg, pkgs, k, wideStructs, sites, out, err, exit, arg>>

NextSizes == CallSizeof

SpecSizes == InitSizes /\ [][NextSizes]_vars

\* ------------------------------------------------------------------------
\* Function-level run: findCopySites on a list of functions
\* ------------------------------------------------------------------------

MaxFuncs == 2

\* Bound on the receiver, parameter and result positions of all the
\* functions of one list together.
MaxPositions == 3

Int64x3 == Struct(<<Basic("int64"), Basic("int64"), Basic("int64")>>)

ScanT == TypeName(<<"T">>, <<>>, "package", Int64x3)

ScanS == TypeName(<<"s">>, <<>>, "package", Struct(<<Basic("int64")>>))

\* Type references of the scanned signatures: two named types by value and
\* a pointer to the first.
ScanTypes == {Named(ScanT), Pointer(Named(ScanT)), Named(ScanS)}

ParamName(i) == <<"p">> \o Itoa(i)

ParamLists(n) ==
    {[i \in 1..n |-> Var(IF named THEN ParamName(i - 1) ELSE <<>>, ts[i])] :
        ts \in [1..n -> ScanTypes], named \in BOOLEAN}

ResultLists(n) ==
    {[i \in 1..n |-> Var(<<>>, ts[i])] : ts \in [1..n -> ScanTypes]}

NumPositions(sg) ==
    (IF sg.recv = NoRecv THEN 0 ELSE 1) + Len(sg.params) + Len(sg.results)

\* Signatures with exactly w positions.
Signatures(w) ==
    UNION { {[recv |-> x[1], params |-> ps, results |-> rs] :
                ps \in ParamLists(x[2]), rs \in ResultLists(x[3])} :
            x \in {y \in ({NoRecv} \cup ScanTypes) \X (0..w) \X (0..w) :
                     (IF y[1] = NoRecv THEN 0 ELSE 1) + y[2] + y[3] = w} }

\* The i-th function of a list is declared as f<i> in file a, line i.
ScanFunc(i, sg) ==
    Func(<<"f">> \o Itoa(i), Position(<<"a">>, i, 1),
         sg.recv, sg.params, sg.results)

PositionsUsed(funcs) ==
    LET RECURSIVE sum(_)
        sum(i) == IF i > Len(funcs) THEN 0 ELSE NumPositions(funcs[i]) + sum(i + 1)
    IN  sum(1)

InitScan ==
    /\ pc = "collect"
    /\ wideStructs \in SUBSET {Id(ScanT), Id(ScanS)}
    /\ arg = <<>>
    /\ Unused({"cfg", "pkgs", "k", "sites", "out", "err", "exit", "ret"})

\* checkPkg's loop over info.Defs: funcs = append(funcs, f)
AppendFunc ==
    /\ pc = "collect"
    /\ Len(arg) < MaxFuncs
    /\ \E v \in 0..(MaxPositions - PositionsUsed(arg)) :
          \E sg \in Signatures(v) :
             arg' = Append(arg, ScanFunc(Len(arg) + 1, sg))
    /\ UNCHANGED <<pc, cfg, pkgs, k, wideStructs, sites, out, err, exit, ret>>

\* sites := findCopySites(funcs, wideStructs)
CallFindCopySites ==
    /\ pc = "collect"
    /\ sites' = findCopySites(arg, wideStructs)
    /\ pc' = "returned"
    /\ UNCHANGED <<cfg, pkgs, k, wideStructs, out, err, exit, arg, ret>>

NextScan == AppendFunc \/ CallFindCopySites

SpecScan == InitScan /\ [][NextScan]_vars

\* ------------------------------------------------------------------------
\* Claims about the signature scanner
\* ------------------------------------------------------------------------

\* The positions of a signature: the receiver, parameter i, result i
\* (Go indices, from 0).
PositionsOf(f) ==
    (IF f.recv = NoRecv THEN {} ELSE {<<"receiver", 0>>})
    \cup {<<"parameter", i>> : i \in 0..(Len(f.params) - 1)}
    \cup {<<"result", i>> : i \in 0..(Len(f.results) - 1)}

TypeAt(f, p) ==
    CASE p[1] = "receiver"  -> f.recv
      [] p[1] = "parameter" -> f.params[p[2] + 1].type
      [] p[1] = "result"    -> f.results[p[2] + 1].type

DescAt(f, p) ==
    CASE p[1] = "receiver"  -> receiverDesc
      [] p[1] = "parameter" -> parameterDesc(f.params[p[2] + 1], p[2])
      [] p[1] = "result"    -> resultDesc(f.results[p[2] + 1], p[2])

\* Receiver first, then parameters by index, then results by index.
RankOf(f, p) ==
    CASE p[1] = "receiver"  -> 0
      [] p[1] = "parameter" -> 1 + p[2]
      [] p[1] = "result"    -> 1 + Len(f.params) + p[2]

\* By-value positions whose named type is keyed in the wide set given to
\* the scanner.
Offending(f, wide) ==
    {p \in PositionsOf(f) :
        TypeAt(f, p).k = "Named" /\ Id(TypeAt(f, p).obj) \in wide}

SitesOf(f) == {i \in 1..Len(sites) : sites[i].fun = f}

\* C2: a position whose type is a pointer is never among a copy site's
\* descriptions, and a function all of whose positions are pointers has no
\* copy site.
C2_ReferenceImmunity ==
    pc = "returned" =>
        /\ \A i \in 1..Len(sites) :
              \A p \in PositionsOf(sites[i].fun) :
                 TypeAt(sites[i].fun, p).k = "Pointer"
                    => DescAt(sites[i].fun, p) \notin Range(sites[i].shouldBe)
        /\ \A j \in 1..Len(arg) :
              (\A p \in PositionsOf(arg[j]) : TypeAt(arg[j], p).k = "Pointer")
                 => SitesOf(arg[j]) = {}

\* Witness for C2: the wide type T is taken by pointer as the receiver and
\* the parameter of one scanned function, which has no site, while another
\* function taking T by value has one.
C2_Witness ==
    /\ pc = "returned"
    /\ Id(ScanT) \in wideStructs
    /\ \E j \in 1..Len(arg) :
          /\ arg[j].recv # NoRecv
          /\ Len(arg[j].params) = 1
          /\ \A p \in PositionsOf(arg[j]) : TypeAt(arg[j], p) = Pointer(Named(ScanT))
          /\ SitesOf(arg[j]) = {}
    /\ Len(sites) = 1

\* C3: the scanner emits exactly one copy site for each function with an
\* offending position and none for the others, in scan order; a site's
\* descriptions are one per offending position, receiver first, then
\* parameters by ascending index, then results by ascending index.
C3_OneSitePerOffendingSignature ==
    pc = "returned" =>
        /\ \A j \in 1..Len(arg) :
              Cardinality(SitesOf(arg[j])) =
                 (IF Offending(arg[j], wideStructs) # {} THEN 1 ELSE 0)
        /\ \A i \in 1..Len(sites) :
              \E j \in 1..Len(arg) : sites[i].fun = arg[j]
        /\ \A i1, i2 \in 1..Len(sites) :
              i1 < i2 =>
                 \E j1, j2 \in 1..Len(arg) :
                    j1 < j2 /\ sites[i1].fun = arg[j1] /\ sites[i2].fun = arg[j2]
        /\ \A i \in 1..Len(sites) :
              LET f == sites[i].fun
                  off == Offending(f, wideStructs)
              IN  /\ Len(sites[i].shouldBe) = Cardinality(off)
                  /\ \A p \in off :
                        LET before == {q \in off : RankOf(f, q) < RankOf(f, p)}
                        IN  sites[i].shouldBe[Cardinality(before) + 1] = DescAt(f, p)

\* Witness for C3: a method with a wide receiver and two wide parameters has
\* one site with three descriptions, the receiver's first.
C3_Witness ==
    /\ pc = "returned"
    /\ \E i \in 1..Len(sites) :
          /\ sites[i].fun.recv = Named(ScanT)
          /\ Len(sites[i].fun.params) = 2
          /\ Len(sites[i].shouldBe) = 3
          /\ sites[i].shouldBe[1] = receiverDesc
          /\ sites[i].shouldBe[2] = parameterDesc(sites[i].fun.params[1], 0)
          /\ sites[i].shouldBe[3] = parameterDesc(sites[i].fun.params[2], 1)
    /\ \E j \in 1..Len(arg) : SitesOf(arg[j]) = {}

\* ------------------------------------------------------------------------
\* Function-level run: sentence on a list of descriptions
\* ------------------------------------------------------------------------

MaxParts == 4

Parts == {<<"A">>, <<"B">>, <<"C">>}

InitSentence ==
    /\ pc = "sentence"
    /\ arg \in SeqsUpTo(Parts, MaxParts)
    /\ Unused({"cfg", "pkgs", "k", "wideStructs", "sites", "out", "err", "exit", "ret"})

\* sb := sentence(shouldBe)
CallSentence ==
    /\ pc = "sentence"
    /\ ret' = sentence(arg)
    /\ pc' = "returned"
    /\ UNCHANGED <<cfg, pkgs, k, wideStructs, sites, out, err, exit, arg>>

NextSentence == CallSentence

SpecSentence == InitSentence /\ [][NextSentence]_vars

\* C4: one description is rendered bare, two as "A and B", three or more
\* separated by ", " with ", and " before the last.
C4_OxfordComma ==
    pc = "returned" =>
        /\ Len(arg) = 1 => ret = arg[1]
        /\ Len(arg) = 2 => ret = arg[1] \o <<" and ">> \o arg[2]
        /\ Len(arg) >= 3 =>
              ret = Join(SubSeq(arg, 1, Len(arg) - 1), <<", ">>)
                       \o <<", and ">> \o arg[Len(arg)]

\* ------------------------------------------------------------------------
\* Function-level run: printSites on a list of copy sites
\* ------------------------------------------------------------------------

MaxSites == 7

ReportPositions ==
    { Position(<<"b">>, 10, 1), Position(<<"a">>, 5, 1),
      Position(<<"a">>, 5, 2),  Position(<<"a">>, 10, 1) }

\* The i-th site the scanner produced: function f<i>, declared at pos, with
\* a wide first parameter.
ReportSite(i, pos) ==
    LET f == Func(<<"f">> \o Itoa(i), pos, NoRecv,
                  <<Var(<<>>, Named(ScanT))>>, <<>>)
    IN  copySite(f, shouldBeOf(f, {Id(ScanT)}))

InitReport ==
    /\ pc = "printSites"
    /\ \E n \in 0..MaxSites :
          \E ps \in [1..n -> ReportPositions] :
             /\ sites = [i \in 1..n |-> ReportSite(i, ps[i])]
             /\ arg = sites
    /\ Unused({"cfg", "pkgs", "k", "wideStructs", "out", "err", "exit", "ret"})

\* printSites(sites, fset, os.Stdout): sorts sites in place and writes one
\* line for each.
CallPrintSites ==
    /\ pc = "printSites"
    /\ \E sorted \in sortSort(sites) :
          /\ sites' = sorted
          /\ out' = printSites(sorted)
    /\ pc' = "returned"
    /\ UNCHANGED <<cfg, pkgs, k, wideStructs, err, exit, arg, ret>>

NextReport == CallPrintSites

SpecReport == InitReport /\ [][NextReport]_vars

\* The sort key of a reported line's function.
KeyLeq(p, q) ==
    \/ StrLess(p.Filename, q.Filename)
    \/ /\ p.Filename = q.Filename
       /\ \/ p.Line < q.Line
          \/ (p.Line = q.Line /\ p.Column <= q.Column)

Occurrences(x, s) == Cardinality({i \in 1..Len(s) : s[i] = x})

\* C5: the lines written are a permutation of the input sites, in ascending
\* order of declaration position: file name lexically, then line, then
\* column numerically.
C5_ReportSortedPermutation ==
    pc = "returned" =>
        /\ Len(out) = Len(arg)
        /\ \A i \in 1..Len(arg) :
              Occurrences(diagnostic(arg[i]), out)
                 = Occurrences(arg[i], arg)
        /\ \A i, j \in 1..Len(out) :
              i < j => KeyLeq(out[i].f.pos, out[j].f.pos)

\* Witness for C5: an input that is out of order in file, in line and in
\* column has been reported.
C5_Witness ==
    /\ pc = "returned"
    /\ Len(out) >= 3
    /\ \E i \in 1..(Len(arg) - 1) :
          StrLess(arg[i + 1].fun.pos.Filename, arg[i].fun.pos.Filename)
    /\ \E i \in 1..(Len(arg) - 1) :
          /\ arg[i + 1].fun.pos.Filename = arg[i].fun.pos.Filename
          /\ arg[i + 1].fun.pos.Line < arg[i].fun.pos.Line
    /\ \E i \in 1..(Len(arg) - 1) :
          /\ arg[i + 1].fun.pos.Filename = arg[i].fun.pos.Filename
          /\ arg[i + 1].fun.pos.Line = arg[i].fun.pos.Line
          /\ arg[i + 1].fun.pos.Column < arg[i].fun.pos.Column

IndexIn(x, s) == CHOOSE i \in 1..Len(s) : s[i] = x

\* C6: sites with identical declaration positions are reported in the
\* relative order in which the scanner produced them.
C6_SortStability ==
    pc = "returned" =>
        \A i, j \in 1..Len(arg) :
           (i < j /\ arg[i].fun.pos = arg[j].fun.pos)
              => IndexIn(arg[i], sites) < IndexIn(arg[j], sites)

\* ------------------------------------------------------------------------
\* The run of the program: main, check, checkPkg, printSites
\* ------------------------------------------------------------------------

MaxPkgs == 2

Int64x2 == Struct(<<Basic("int64"), Basic("int64")>>)

\* Package-level types of an analysed package.
Big == TypeName(<<"B", "i", "g">>, <<>>, "package", Int64x2)

Bigger == TypeName(<<"B", "i", "g", "g", "e", "r">>, <<>>, "package", Int64x3)

Names == TypeName(<<"N", "a", "m", "e", "s">>, <<>>, "package", Slice)

\* A type declared in a function body with the name of a package-level one.
LocalBig == TypeName(<<"B", "i", "g">>, <<>>, "local", Int64x3)

\* A type of an imported package q with the name of a package-level one.
ImportedBigger ==
    TypeName(<<"B", "i", "g", "g", "e", "r">>, <<"q">>, "package",
             Struct(<<Basic("int64")>>))

\* func (b Bigger) M(x Big, y Bigger) Bigger
FuncM ==
    Func(<<"M">>, Position(<<"a">>, 5, 1), Named(Bigger),
         <<Var(<<"x">>, Named(Big)), Var(<<"y">>, Named(Bigger))>>,
         <<Var(<<>>, Named(Bigger))>>)

\* func g(p *Bigger) *Big
FuncG ==
    Func(<<"g">>, Position(<<"a">>, 10, 1), NoRecv,
         <<Var(<<"p">>, Pointer(Named(Bigger)))>>,
         <<Var(<<>>, Pointer(Named(Big)))>>)

\* func h(n Names)
FuncH ==
    Func(<<"h">>, Position(<<"b">>, 5, 1), NoRecv,
         <<Var(<<"n">>, Named(Names))>>, <<>>)

\* func i(Big, q.Bigger)
FuncI ==
    Func(<<"i">>, Position(<<"a">>, 5, 2), NoRecv,
         <<Var(<<>>, Named(Big)), Var(<<>>, Named(ImportedBigger))>>, <<>>)

\* The packages a run may meet: an empty one, packages with the two
\* package-level types and different functions, one with a named slice, one
\* in which a function body declares its own Big, and two that do not type
\* check.
Packages ==
    { Package(FALSE, {}, {}),
      Package(FALSE, {Big, Bigger}, {}),
      Package(FALSE, {Big, Bigger}, {FuncG}),
      Package(FALSE, {Big, Bigger}, {FuncM, FuncG}),
      Package(FALSE, {Big, Bigger}, {FuncI}),
      Package(FALSE, {Big, Bigger, Names}, {FuncH}),
      Package(FALSE, {Big, Bigger, LocalBig}, {FuncM, FuncI}),
      Package(TRUE, {}, {}),
      Package(TRUE, {Big, Bigger}, {FuncM, FuncG}) }

Configs ==
    [maxStructWidth : {-1, 0, 16, 23}, wordSize : {0, 8}, maxAlign : {0, 8}]

Init ==
    /\ pc = "main"
    /\ cfg \in Configs
    /\ pkgs = <<>>
    /\ k = 0
    /\ wideStructs = {}
    /\ sites = <<>>
    /\ out = <<>>
    /\ err = Nil
    /\ exit = -1
    /\ arg = <<>>
    /\ ret = <<>>

\* main: flag.NArg() != 1, log.Fatalf("usage: ...")
MainUsage ==
    /\ pc = "main"
    /\ pc' = "done"
    /\ exit' = 1
    /\ UNCHANGED <<cfg, pkgs, k, wideStructs, sites, out, err, arg, ret>>

\* check: os.Stat fails with an error other than "does not exist".
CheckStatError ==
    /\ pc = "main"
    /\ err' = "stat"
    /\ pc' = "fatal"
    /\ UNCHANGED <<cfg, pkgs, k, wideStructs, sites, out, exit, arg, ret>>

\* check: the path exists; parsePkgDir returns the one package of the
\* directory or an error.
CheckParsePkgDir ==
    /\ pc = "main"
    /\ \/ /\ err' = "parsePkgDir"
          /\ pc' = "fatal"
          /\ pkgs' = pkgs
       \/ /\ \E pkg \in Packages : pkgs' = <<pkg>>
          /\ pc' = "checkPkg"
          /\ err' = err
    /\ UNCHANGED <<cfg, k, wideStructs, sites, out, exit, arg, ret>>

\* check: the path does not exist; parseGoPkg returns the packages matching
\* the import path (at least one) or an error.
CheckParseGoPkg ==
    /\ pc = "main"
    /\ \/ /\ err' = "parseGoPkg"
          /\ pc' = "fatal"
          /\ pkgs' = pkgs
       \/ /\ \E n \in 1..MaxPkgs :
                \E ps \in [1..n -> Packages] : pkgs' = ps
          /\ pc' = "checkPkg"
          /\ err' = err
    /\ UNCHANGED <<cfg, k, wideStructs, sites, out, exit, arg, ret>>

\* A variant of CheckPkgError that returns the sites found so far.
CheckPkgErrorKeepsSites ==
    /\ pc = "checkPkg"
    /\ pkgs[k + 1].typeErr
    /\ err' = "unable to type check package"
    /\ pc' = "fatal"
    /\ UNCHANGED <<cfg, pkgs, k, wideStructs, sites, out, exit, arg, ret>>

\* check: checkPkg fails in conf.Check; check returns nil, nil, err.
CheckPkgError ==
    /\ pc = "checkPkg"
    /\ pkgs[k + 1].typeErr
    /\ sites' = <<>>
    /\ err' = "unable to type check package"
    /\ pc' = "fatal"
    /\ UNCHANGED <<cfg, pkgs, k, wideStructs, out, exit, arg, ret>>

\* check: sizes.Sizeof divides by zero inside checkPkg; the process dies.
CheckPkgPanic ==
    /\ pc = "checkPkg"
    /\ ~pkgs[k + 1].typeErr
    /\ checkPkgPanics(pkgs[k + 1], cfg)
    /\ pc' = "panicked"
    /\ exit' = 2
    /\ UNCHANGED <<cfg, pkgs, k, wideStructs, sites, out, err, arg, ret>>

\* check: checkPkg succeeds on the next package and its sites are appended;
\* after the last package check returns the sites to main.
CheckPkg ==
    /\ pc = "checkPkg"
    /\ ~pkgs[k + 1].typeErr
    /\ ~checkPkgPanics(pkgs[k + 1], cfg)
    /\ LET wide == wideStructsOf(pkgs[k + 1].types, cfg)
       IN  /\ wideStructs' = wide
           /\ \E funcs \in funcOrders(pkgs[k + 1].funcs) :
                 sites' = sites \o findCopySites(funcs, wide)
    /\ k' = k + 1
    /\ pc' = IF k + 1 = Len(pkgs) THEN "printSites" ELSE "checkPkg"
    /\ UNCHANGED <<cfg, pkgs, out, err, exit, arg, ret>>

\* main: log.Fatal(err)
MainFatal ==
    /\ pc = "fatal"
    /\ pc' = "done"
    /\ exit' = 1
    /\ UNCHANGED <<cfg, pkgs, k, wideStructs, sites, out, err, arg, ret>>

\* main: printSites(sites, fset, os.Stdout); os.Exit(2) if there are sites.
MainPrintSites ==
    /\ pc = "printSites"
    /\ \E sorted \in sortSort(sites) :
          /\ sites' = sorted
          /\ out' = printSites(sorted)
    /\ exit' = IF Len(sites) > 0 THEN 2 ELSE 0
    /\ pc' = "done"
    /\ UNCHANGED <<cfg, pkgs, k, wideStructs, err, arg, ret>>

Next ==
    \/ MainUsage
    \/ CheckStatError
    \/ CheckParsePkgDir
    \/ CheckParseGoPkg
    \/ CheckPkgError
    \/ CheckPkgPanic
    \/ CheckPkg
    \/ MainFatal
    \/ MainPrintSites

Spec == Init /\ [][Next]_vars

\* ------------------------------------------------------------------------
\* Claims about the run
\* ------------------------------------------------------------------------

PositiveConfig ==
    cfg.maxStructWidth > 0 /\ cfg.wordSize > 0 /\ cfg.maxAlign > 0

\* The package checkPkg classified last.
Classified == pkgs[k]

FootprintOf(tn) ==
    Sizeof(Named(tn), [wordSize |-> cfg.wordSize, maxAlign |-> cfg.maxAlign])

\* C1: for every named type definition of the analysed package, the type's
\* identity is in the wide set if and only if its footprint is strictly
\* greater than the threshold (stated here for positive configurations).
C1_WideIffAboveThreshold ==
    (k >= 1 /\ PositiveConfig) =>
        \A tn \in Classified.types :
           (Id(tn) \in wideStructs) <=> (FootprintOf(tn) > cfg.maxStructWidth)

\* What the classifier does establish: a key is in the wide set if and only
\* if some definition with that key has a footprint above the threshold.
C1_KeyOfSomeWideDefinition ==
    (k >= 1 /\ PositiveConfig) =>
        \A tn \in Classified.types :
           (Id(tn) \in wideStructs) <=>
              \E other \in Classified.types :
                 Id(other) = Id(tn) /\ FootprintOf(other) > cfg.maxStructWidth

\* C8: with a non-positive threshold, word size or maximum alignment the run
\* is rejected before analysis: no type is classified, no signature is
\* scanned, no line is written, and the run ends with an error.
C8_NonPositiveConfigRejected ==
    ~PositiveConfig =>
        /\ wideStructs = {}
        /\ sites = <<>>
        /\ out = <<>>
        /\ pc \in {"done", "panicked"} => exit = 1

AnyTypeError == \E i \in 1..Len(pkgs) : pkgs[i].typeErr

\* C9: if type checking of any package of the run fails, the run returns an
\* error and no copy sites and writes no diagnostic line, not even for the
\* packages checked before the failure; lines are written only when every
\* package resolved.
C9_NoOutputOnResolutionFailure ==
    /\ err # Nil => (sites = <<>> /\ out = <<>>)
    /\ AnyTypeError => out = <<>>
    /\ (pc = "done" /\ AnyTypeError) =>
          (err # Nil /\ sites = <<>> /\ exit = 1)
    /\ out # <<>> => (err = Nil /\ k = Len(pkgs))

\* Witness for C9: the first of two packages was checked and has copy
\* sites, the second failed to type check, and the run has ended with an
\* error, without sites and without output.
C9_Witness ==
    /\ pc = "done"
    /\ Len(pkgs) = 2
    /\ k = 1
    /\ pkgs[2].typeErr
    /\ \E funcs \in funcOrders(pkgs[1].funcs) :
          findCopySites(funcs, wideStructs) # <<>>
    /\ err # Nil
    /\ sites = <<>>
    /\ out = <<>>
    /\ exit = 1

\* C10: a position is recorded as offending only if the type definition it
\* refers to is a named composite of the analysed package whose own
\* footprint exceeds the threshold (stated here for positive
\* configurations).
C10_OffendingOnlyIfWideCompositeOfPackage ==
    PositiveConfig =>
        \A i \in 1..Len(sites) :
           \A p \in PositionsOf(sites[i].fun) :
              DescAt(sites[i].fun, p) \in Range(sites[i].shouldBe) =>
                 LET t == TypeAt(sites[i].fun, p)
                 IN  /\ t.k = "Named"
                     /\ t.obj.path = <<>>
                     /\ t.obj.under.k = "Struct"
                     /\ FootprintOf(t.obj) > cfg.maxStructWidth

\* ------------------------------------------------------------------------
\* Claims about the size model
\* ------------------------------------------------------------------------

\* The aggregate layout rule as the specification words it, over a list of
\* fields given by intrinsic size (= alignment before capping): each field
\* goes to the offset rounded up to its capped alignment, and the total is
\* rounded up to the aggregate's own capped alignment.
Cap(a, m) == IF a > m THEN m ELSE a

RoundUp(x, a) == ((x + a - 1) \div a) * a

RECURSIVE LayoutEnd(_, _, _, _)
LayoutEnd(szs, m, i, o) ==
    IF i > Len(szs) THEN o
    ELSE LayoutEnd(szs, m, i + 1, RoundUp(o, Cap(szs[i], m)) + szs[i])

LayoutFootprint(szs, m) ==
    LET as == {Cap(szs[i], m) : i \in 1..Len(szs)} \cup {1}
        agg == CHOOSE a \in as : \A b \in as : b <= a
    IN  RoundUp(LayoutEnd(szs, m, 1, 0), agg)

ExplicitlySized(T) ==
    /\ T.k = "Struct"
    /\ \A i \in 1..Len(T.fields) :
          T.fields[i].k = "Basic" /\ basicSizes(T.fields[i].name) > 0

IntrinsicSizes(T) == [i \in 1..Len(T.fields) |-> basicSizes(T.fields[i].name)]

\* C7: the footprint of a struct of explicitly sized fields is the result of
\* the aggregate layout rule, trailing padding to the aggregate's alignment
\* included (fields [1,8] give 16, and so do fields [8,1]).
C7_FootprintFollowsLayoutRule ==
    (pc = "returned" /\ ExplicitlySized(arg))
        => ret = LayoutFootprint(IntrinsicSizes(arg), cfg.maxAlign)

\* The part of C7 that the size model does satisfy: up to the end of the
\* last field the offsets follow the rule (fields [1,8] give 16).
C7_OffsetsFollowLayoutRule ==
    (pc = "returned" /\ ExplicitlySized(arg))
        => ret = LayoutEnd(IntrinsicSizes(arg), cfg.maxAlign, 1, 0)

====
